---- MODULE Spec2Model ----
(***************************************************************************)
(* The Slug runtime (src/src/runtime.rs): a stack machine that interprets  *)
(* a growable sequence of tokens against an evaluation stack and a signed  *)
(* instruction pointer, in one-shot or incremental mode.                   *)
(*                                                                         *)
(* One action per public operation of Slug (execute_tokens, execute_token, *)
(* execute, exit), one for a caller's assignment to the public field eof,  *)
(* and one for each iteration of the loop of execute.                      *)
(***************************************************************************)
EXTENDS Integers, Sequences, FiniteSets, TLC

VARIABLES
    stack,            \* Slug::stack : Vec<i64>, top = last element
    stack_limit,      \* Slug::stack_limit : Option<usize>, {} = None, {n} = Some(n)
    tokens,           \* Slug::tokens : Vec<Token>
    ptr,              \* Slug::ptr : i64
    token_limit,      \* Slug::token_limit : Option<usize>, {} = None, {n} = Some(n)
    tokens_consumed,  \* Slug::tokens_consumed : usize
    eof,              \* Slug::eof : bool
    overflow_checks,  \* build profile: TRUE = arithmetic overflow panics, FALSE = it wraps
    pc,               \* "idle": no call in progress; "loop": in execute, at the top of
                      \* the loop; "panicked": the thread unwound out of a call
    ret,              \* what the last call returned (NoReturn before it returns)
    how,              \* the place in the code the last action left through
    entry             \* the call in progress, or the last one: "execute" (which
                      \* execute_tokens and execute_token end in) or "exit", and the
                      \* engine as the call found it, before it appended any token

vars == <<stack, stack_limit, tokens, ptr, token_limit, tokens_consumed, eof,
          overflow_checks, pc, ret, how, entry>>

(***************************************************************************)
(* Bounds of the model.                                                    *)
(***************************************************************************)
\* Most tokens an engine ever holds.
MaxTokens == 3
\* Steps after which the model stops a run (tokens_consumed is a usize).
MaxConsumed == 6
\* Width, in bits, that the model gives to the i64 of the program.
IntBits == 4
\* Largest ceiling chosen for token_limit and stack_limit at construction.
MaxLimit == 2
\* Most tokens an engine with limits ever holds.
MaxLimitTokens == 2
\* Longest program, and largest token_limit, of a one-shot straight-line run.
StraightLen == 10
StraightLimit == 3

Modulus == 2 ^ IntBits
MinInt == -(2 ^ (IntBits - 1))
MaxInt == (2 ^ (IntBits - 1)) - 1

(***************************************************************************)
(* Token model (src/src/token.rs, src/src/opp.rs).                         *)
(***************************************************************************)
Opp == {"add", "sub", "mul", "div", "dump", "top", "swap", "drop", "hop", "pos",
        "exit", "goto", "flip"}

\* The literals fed to the engine.
Values == {-2, 0, 1, 5}

Value(i) == [kind |-> "Value", i |-> i]
OppTok(o) == [kind |-> "Opp", opp |-> o]

Token == {Value(i) : i \in Values} \cup {OppTok(o) : o \in Opp}

(***************************************************************************)
(* Return values: Result<Option<i64>, RuntimeError> (src/src/error.rs).    *)
(* val carries the payload, <<>> when the variant has none.                *)
(***************************************************************************)
RuntimeError == {"UnderRead", "BreforeProgramRead", "AfterProgramRead", "TokenLimitHit",
                 "StackLimitHit", "NoOut", "NoTokens"}

OkNone == [tag |-> "OkNone", val |-> <<>>]
OkSome(v) == [tag |-> "OkSome", val |-> <<v>>]
Err(e) == [tag |-> e, val |-> <<>>]
ErrAt(e, p) == [tag |-> e, val |-> <<p>>]
NoReturn == [tag |-> "None", val |-> <<>>]
Panic == [tag |-> "Panic", val |-> <<>>]

(***************************************************************************)
(* i64 arithmetic.  An overflowing +, - or * panics when the build has     *)
(* overflow checks (debug profile) and wraps otherwise (release profile).  *)
(* / and % panic in every build on a zero divisor and on MinInt / -1.      *)
(***************************************************************************)
Overflows(n) == n < MinInt \/ n > MaxInt
Wrap(n) == ((n - MinInt) % Modulus) + MinInt

Abs(n) == IF n < 0 THEN -n ELSE n
Sign(n) == IF n < 0 THEN -1 ELSE 1
\* Rust's / on integers: the quotient truncated toward zero.
Quot(lhs, rhs) == Sign(lhs) * Sign(rhs) * (Abs(lhs) \div Abs(rhs))
\* Rust's % on integers: the remainder of the truncated division.
Rem(lhs, rhs) == lhs - rhs * Quot(lhs, rhs)

(***************************************************************************)
(* Vec<i64> as a stack.                                                    *)
(***************************************************************************)
Top(st) == st[Len(st)]
Pop(st) == SubSeq(st, 1, Len(st) - 1)
Push(st, v) == Append(st, v)

(***************************************************************************)
(* The dispatch of one token at index p on stack st (the match of          *)
(* execute).  out is "next" when the arm fell through to the pointer       *)
(* advance, "UnderRead" when a pop found the stack empty (the ? operator   *)
(* returns), "exit" for Opp::Exit, and "overflow", "div_zero", "index"     *)
(* when the arm panicked.  stack and ptr are as the arm left them.         *)
(***************************************************************************)
Arm(out, st, p) == [out |-> out, stack |-> st, ptr |-> p]

\* stack.push(r) for the result r of +, - or *.
PushArith(st, p, r) ==
    IF Overflows(r) /\ overflow_checks
        THEN Arm("overflow", st, p)
        ELSE Arm("next", Push(st, Wrap(r)), p)

OppAdd(st, p) ==
    IF Len(st) = 0 THEN Arm("UnderRead", st, p)
    ELSE IF Len(st) = 1 THEN Arm("UnderRead", Pop(st), p)
    ELSE LET rhs == Top(st)
             lhs == Top(Pop(st))
         IN  PushArith(Pop(Pop(st)), p, lhs + rhs)

OppSub(st, p) ==
    IF Len(st) = 0 THEN Arm("UnderRead", st, p)
    ELSE IF Len(st) = 1 THEN Arm("UnderRead", Pop(st), p)
    ELSE LET rhs == Top(st)
             lhs == Top(Pop(st))
         IN  PushArith(Pop(Pop(st)), p, lhs - rhs)

OppMul(st, p) ==
    IF Len(st) = 0 THEN Arm("UnderRead", st, p)
    ELSE IF Len(st) = 1 THEN Arm("UnderRead", Pop(st), p)
    ELSE LET a1 == Top(st)
             a2 == Top(Pop(st))
         IN  PushArith(Pop(Pop(st)), p, a1 * a2)

\* println! only: the stack is read, not changed.
OppDump(st, p) == Arm("next", st, p)

OppTop(st, p) ==
    IF Len(st) = 0 THEN Arm("UnderRead", st, p)
    ELSE LET a == Top(st) IN Arm("next", Push(Pop(st), a), p)

OppSwap(st, p) ==
    IF Len(st) = 0 THEN Arm("UnderRead", st, p)
    ELSE IF Len(st) = 1 THEN Arm("UnderRead", Pop(st), p)
    ELSE LET a1 == Top(st)
             a2 == Top(Pop(st))
         IN  Arm("next", Push(Push(Pop(Pop(st)), a1), a2), p)

\* A slip: drop on an empty stack is taken for a no-op.
OppDrop_Lenient(st, p) ==
    IF Len(st) = 0 THEN Arm("next", st, p)
    ELSE Arm("next", Pop(st), p)

OppDrop(st, p) ==
    IF Len(st) = 0 THEN Arm("UnderRead", st, p)
    ELSE Arm("next", Pop(st), p)

\* A slip: the advance that follows the arm is discounted from the hop.
OppHop_NetDisplacement(st, p) ==
    IF Len(st) = 0 THEN Arm("UnderRead", st, p)
    ELSE LET d == Top(st) IN
         IF Overflows(p + d - 1) /\ overflow_checks
             THEN Arm("overflow", Pop(st), p)
             ELSE Arm("next", Pop(st), Wrap(p + d - 1))

OppHop(st, p) ==
    IF Len(st) = 0 THEN Arm("UnderRead", st, p)
    ELSE LET d == Top(st) IN
         IF Overflows(p + d) /\ overflow_checks
             THEN Arm("overflow", Pop(st), p)
             ELSE Arm("next", Pop(st), Wrap(p + d))

\* A slip: the quotient is pushed first and the remainder ends on top.
OppDiv_QuotientFirst(st, p) ==
    IF Len(st) = 0 THEN Arm("UnderRead", st, p)
    ELSE IF Len(st) = 1 THEN Arm("UnderRead", Pop(st), p)
    ELSE LET rhs == Top(st)
             lhs == Top(Pop(st))
             rest == Pop(Pop(st))
         IN  IF rhs = 0 THEN Arm("div_zero", rest, p)
             ELSE IF lhs = MinInt /\ rhs = -1 THEN Arm("overflow", rest, p)
             ELSE Arm("next", Push(Push(rest, Quot(lhs, rhs)), Rem(lhs, rhs)), p)

OppDiv(st, p) ==
    IF Len(st) = 0 THEN Arm("UnderRead", st, p)
    ELSE IF Len(st) = 1 THEN Arm("UnderRead", Pop(st), p)
    ELSE LET rhs == Top(st)
             lhs == Top(Pop(st))
             rest == Pop(Pop(st))
         IN  IF rhs = 0 THEN Arm("div_zero", rest, p)
             ELSE IF lhs = MinInt /\ rhs = -1 THEN Arm("overflow", rest, p)
             ELSE Arm("next", Push(Push(rest, Rem(lhs, rhs)), Quot(lhs, rhs)), p)

OppPos(st, p) == Arm("next", Push(st, p), p)

\* A slip: exit falls through like any other arm and leaves the return to the
\* end of the program.
OppExit_FallsThrough(st, p) == Arm("next", st, p)

\* A slip: the pointer moves past the exit token before the return.
OppExit_Advances(st, p) == Arm("exit", st, p + 1)

\* return self.exit().map(Some): the iteration ends in Slug::exit.
OppExit(st, p) == Arm("exit", st, p)

\* A slip: the advance that follows the arm is forgotten.
OppGoto_NoCompensation(st, p) ==
    IF Len(st) = 0 THEN Arm("UnderRead", st, p)
    ELSE LET v == Top(st) IN Arm("next", Pop(st), v)

OppGoto(st, p) ==
    IF Len(st) = 0 THEN Arm("UnderRead", st, p)
    ELSE LET v == Top(st) IN
         IF Overflows(v - 1) /\ overflow_checks
             THEN Arm("overflow", Pop(st), p)
             ELSE Arm("next", Pop(st), Wrap(v - 1))

OppFlip(st, p) ==
    IF Len(st) = 0 THEN Arm("UnderRead", st, p)
    ELSE LET t == Top(st)
             rest == Pop(st)
         IN  IF Len(rest) = 0 THEN Arm("index", rest, p)
             ELSE LET b == rest[1] IN
                  Arm("next", Push([rest EXCEPT ![1] = t], b), p)

Dispatch(tok, st, p) ==
    IF tok.kind = "Value" THEN Arm("next", Push(st, tok.i), p)
    ELSE CASE tok.opp = "add"  -> OppAdd(st, p)
           [] tok.opp = "sub"  -> OppSub(st, p)
           [] tok.opp = "mul"  -> OppMul(st, p)
           [] tok.opp = "dump" -> OppDump(st, p)
           [] tok.opp = "top"  -> OppTop(st, p)
           [] tok.opp = "swap" -> OppSwap(st, p)
           [] tok.opp = "drop" -> OppDrop(st, p)
           [] tok.opp = "hop"  -> OppHop(st, p)
           [] tok.opp = "div"  -> OppDiv(st, p)
           [] tok.opp = "pos"  -> OppPos(st, p)
           [] tok.opp = "exit" -> OppExit(st, p)
           [] tok.opp = "goto" -> OppGoto(st, p)
           [] tok.opp = "flip" -> OppFlip(st, p)

(***************************************************************************)
(* Slug::exit: pop the top of the stack, or NoOut.                         *)
(***************************************************************************)
\* A slip: the top is read and left on the stack.
ExitOf_Peek(st) ==
    IF Len(st) = 0
        THEN [ret |-> Err("NoOut"), stack |-> st]
        ELSE [ret |-> OkSome(Top(st)), stack |-> st]

ExitOf(st) ==
    IF Len(st) = 0
        THEN [ret |-> Err("NoOut"), stack |-> st]
        ELSE [ret |-> OkSome(Top(st)), stack |-> Pop(st)]

(***************************************************************************)
(* One iteration of the loop of execute, as the values it leaves in        *)
(* stack, ptr, tokens_consumed, and where control goes.                    *)
(***************************************************************************)
Left(st, p, c, to, r, by) ==
    [stack |-> st, ptr |-> p, tokens_consumed |-> c, pc |-> to, ret |-> r, how |-> by]

\* A slip: <= for <.
TokenLimitExceeded_AtLimit(c) == \E limit \in token_limit : limit <= c

\* A slip: the limit may be passed by one step before the call fails.
TokenLimitExceeded_OneOverAllowed(c) == \E limit \in token_limit : limit + 1 < c

\* if let Some(limit) = self.token_limit && limit < self.tokens_consumed
TokenLimitExceeded(c) == \E limit \in token_limit : limit < c

\* A slip: the stack may be one value over the limit before the step fails.
StackLimitExceeded_OneOverAllowed(st) == \E limit \in stack_limit : limit + 1 < Len(st)

\* if let Some(limit) = self.stack_limit && limit < self.stack.len()
StackLimitExceeded(st) == \E limit \in stack_limit : limit < Len(st)

\* A slip: only an overshoot of one suspends; a larger one is AfterProgramRead.
Termination_SuspendsOneOver(st, p, c) ==
    LET len == Len(tokens) IN
    IF p = len \/ (p = len + 1 /\ ~eof)
        THEN IF eof
                 THEN Left(ExitOf(st).stack, p, c, "idle", ExitOf(st).ret, "end_exit")
                 ELSE Left(st, p, c, "idle", OkNone, "end_none")
    ELSE IF p > len
        THEN Left(st, p, c, "idle", Err("AfterProgramRead"), "after_read")
    ELSE Left(st, p, c, "loop", NoReturn, "continue")

\* A slip: the end of the tokens pops the result whatever eof is.
Termination_PopsAtBoundary(st, p, c) ==
    LET len == Len(tokens) IN
    IF p = len
        THEN Left(ExitOf(st).stack, p, c, "idle", ExitOf(st).ret, "end_exit")
    ELSE IF p > len /\ ~eof
        THEN Left(st, p, c, "idle", OkNone, "end_none")
    ELSE IF p > len /\ eof
        THEN Left(st, p, c, "idle", Err("AfterProgramRead"), "after_read")
    ELSE Left(st, p, c, "loop", NoReturn, "continue")

\* A slip: the end of the tokens suspends the call whatever eof is.
Termination_IgnoresEof(st, p, c) ==
    LET len == Len(tokens) IN
    IF p = len \/ (p > len /\ ~eof)
        THEN Left(st, p, c, "idle", OkNone, "end_none")
    ELSE IF p > len /\ eof
        THEN Left(st, p, c, "idle", Err("AfterProgramRead"), "after_read")
    ELSE Left(st, p, c, "loop", NoReturn, "continue")

\* The termination check and what follows the loop.
Termination(st, p, c) ==
    LET len == Len(tokens) IN
    IF p = len \/ (p > len /\ ~eof)
        THEN IF eof
                 THEN Left(ExitOf(st).stack, p, c, "idle", ExitOf(st).ret, "end_exit")
                 ELSE Left(st, p, c, "idle", OkNone, "end_none")
    ELSE IF p > len /\ eof
        THEN Left(st, p, c, "idle", Err("AfterProgramRead"), "after_read")
    ELSE Left(st, p, c, "loop", NoReturn, "continue")

\* A slip: the limits are checked only when the loop goes on.
Advance_ChecksEndFirst(st, p) ==
    IF Overflows(p + 1) /\ overflow_checks
        THEN Left(st, p, tokens_consumed, "panicked", Panic, "overflow")
    ELSE LET p1 == Wrap(p + 1)
             c1 == tokens_consumed + 1
         IN  IF Termination(st, p1, c1).pc = "idle"
                 THEN Termination(st, p1, c1)
             ELSE IF TokenLimitExceeded(c1)
                 THEN Left(st, p1, c1, "idle", ErrAt("TokenLimitHit", p1), "token_limit")
             ELSE IF StackLimitExceeded(st)
                 THEN Left(st, p1, c1, "idle", ErrAt("StackLimitHit", p1), "stack_limit")
             ELSE Termination(st, p1, c1)

\* A slip: the two limit checks in the other order.
Advance_StackLimitFirst(st, p) ==
    IF Overflows(p + 1) /\ overflow_checks
        THEN Left(st, p, tokens_consumed, "panicked", Panic, "overflow")
    ELSE LET p1 == Wrap(p + 1)
             c1 == tokens_consumed + 1
         IN  IF StackLimitExceeded(st)
                 THEN Left(st, p1, c1, "idle", ErrAt("StackLimitHit", p1), "stack_limit")
             ELSE IF TokenLimitExceeded(c1)
                 THEN Left(st, p1, c1, "idle", ErrAt("TokenLimitHit", p1), "token_limit")
             ELSE Termination(st, p1, c1)

\* From the pointer advance to the end of the iteration; st and p are the
\* stack and the pointer as the dispatch left them.
Advance(st, p) ==
    IF Overflows(p + 1) /\ overflow_checks
        THEN Left(st, p, tokens_consumed, "panicked", Panic, "overflow")
    ELSE LET p1 == Wrap(p + 1)
             c1 == tokens_consumed + 1
         IN  IF TokenLimitExceeded(c1)
                 THEN Left(st, p1, c1, "idle", ErrAt("TokenLimitHit", p1), "token_limit")
             ELSE IF StackLimitExceeded(st)
                 THEN Left(st, p1, c1, "idle", ErrAt("StackLimitHit", p1), "stack_limit")
             ELSE Termination(st, p1, c1)

\* A slip: a pointer before the program is taken for index 0.
Iteration_Clamps ==
    LET p0 == IF ptr < 0 THEN 0 ELSE ptr IN
    IF p0 >= Len(tokens)
        THEN Left(stack, p0, tokens_consumed, "panicked", Panic, "fetch_oob")
    ELSE LET a == Dispatch(tokens[p0 + 1], stack, p0) IN
         CASE a.out = "next" -> Advance(a.stack, a.ptr)
           [] a.out = "UnderRead" ->
                Left(a.stack, a.ptr, tokens_consumed, "idle", ErrAt("UnderRead", p0),
                     "under_read")
           [] a.out = "exit" ->
                Left(ExitOf(a.stack).stack, a.ptr, tokens_consumed, "idle",
                     ExitOf(a.stack).ret, "exit_opp")
           [] OTHER ->
                Left(a.stack, a.ptr, tokens_consumed, "panicked", Panic, a.out)

Iteration ==
    IF ptr < 0
        THEN Left(stack, ptr, tokens_consumed, "idle", Err("BreforeProgramRead"),
                  "before_read")
    ELSE IF ptr >= Len(tokens)
        \* self.tokens[self.ptr as usize] with the index out of bounds panics
        THEN Left(stack, ptr, tokens_consumed, "panicked", Panic, "fetch_oob")
    ELSE LET a == Dispatch(tokens[ptr + 1], stack, ptr) IN
         CASE a.out = "next" -> Advance(a.stack, a.ptr)
           [] a.out = "UnderRead" ->
                Left(a.stack, a.ptr, tokens_consumed, "idle", ErrAt("UnderRead", ptr),
                     "under_read")
           [] a.out = "exit" ->
                Left(ExitOf(a.stack).stack, a.ptr, tokens_consumed, "idle",
                     ExitOf(a.stack).ret, "exit_opp")
           [] OTHER ->
                Left(a.stack, a.ptr, tokens_consumed, "panicked", Panic, a.out)

(***************************************************************************)
(* Construction.  Slug::new() leaves both limits None; the run subcommand  *)
(* builds the struct with the limits of the command line.  The engine      *)
(* starts empty, and the profile of the build is fixed.                    *)
(***************************************************************************)
Limits == {{}} \cup {{n} : n \in 0..MaxLimit}

Snapshot(op) ==
    [op |-> op, stack |-> stack, ptr |-> ptr, tokens_consumed |-> tokens_consumed,
     eof |-> eof, len |-> Len(tokens), ret |-> ret]

new(stack_limit0, token_limit0) ==
    /\ stack = <<>>
    /\ tokens = <<>>
    /\ ptr = 0
    /\ stack_limit = stack_limit0
    /\ token_limit = token_limit0
    /\ tokens_consumed = 0
    /\ eof = FALSE
    /\ overflow_checks \in BOOLEAN
    /\ pc = "idle"
    /\ ret = NoReturn
    /\ how = "new"
    /\ entry = [op |-> "new", stack |-> <<>>, ptr |-> 0, tokens_consumed |-> 0,
                eof |-> FALSE, len |-> 0, ret |-> NoReturn]

(***************************************************************************)
(* The caller.  It calls only between calls, and no more once a call has   *)
(* returned an error or panicked: the instance is then discarded.          *)
(***************************************************************************)
Live == pc = "idle" /\ ret.tag \in {"None", "OkNone", "OkSome"}

Batches(n) == UNION {[1..k -> Token] : k \in 0..n}

\* A slip: the head of execute lacks the NoTokens check.
Enter_NoCheck(toks) ==
    /\ tokens' = toks
    /\ pc' = "loop" /\ ret' = NoReturn /\ how' = "enter"
    /\ UNCHANGED <<stack, stack_limit, ptr, token_limit, tokens_consumed, eof,
                   overflow_checks>>

\* A slip: each call counts its own steps.
Enter_ResetsCount(toks) ==
    /\ tokens' = toks
    /\ tokens_consumed' = 0
    /\ IF Len(toks) = 0 /\ eof
           THEN pc' = "idle" /\ ret' = Err("NoTokens") /\ how' = "no_tokens"
           ELSE pc' = "loop" /\ ret' = NoReturn /\ how' = "enter"
    /\ UNCHANGED <<stack, stack_limit, ptr, token_limit, eof, overflow_checks>>

\* The head of execute, on the tokens toks the call has just made of self.tokens.
Enter(toks) ==
    /\ tokens' = toks
    /\ IF Len(toks) = 0 /\ eof
           THEN pc' = "idle" /\ ret' = Err("NoTokens") /\ how' = "no_tokens"
           ELSE pc' = "loop" /\ ret' = NoReturn /\ how' = "enter"
    /\ UNCHANGED <<stack, stack_limit, ptr, token_limit, tokens_consumed, eof,
                   overflow_checks>>

\* A slip: the batch is assigned to self.tokens where it should extend it.
execute_tokens_Replaces(toks) ==
    /\ Live
    /\ entry' = Snapshot("execute")
    /\ Enter(toks)

execute_tokens(toks) ==
    /\ Live
    /\ entry' = Snapshot("execute")
    /\ Enter(tokens \o toks)

execute_token(token) ==
    /\ Live
    /\ entry' = Snapshot("execute")
    /\ Enter(Append(tokens, token))

execute ==
    /\ Live
    /\ entry' = Snapshot("execute")
    /\ Enter(tokens)

exit ==
    /\ Live
    /\ entry' = Snapshot("exit")
    /\ stack' = ExitOf(stack).stack
    /\ ret' = ExitOf(stack).ret
    /\ how' = "exit_call"
    /\ UNCHANGED <<stack_limit, tokens, ptr, token_limit, tokens_consumed, eof,
                   overflow_checks, pc>>

\* The caller assigns the public field eof.
set_eof(b) ==
    /\ Live
    /\ eof # b
    /\ eof' = b
    /\ how' = "set_eof"
    /\ UNCHANGED <<stack, stack_limit, tokens, ptr, token_limit, tokens_consumed,
                   overflow_checks, pc, ret, entry>>

\* One iteration of the loop of execute.
Step ==
    /\ pc = "loop"
    /\ tokens_consumed < MaxConsumed
    /\ stack' = Iteration.stack
    /\ ptr' = Iteration.ptr
    /\ tokens_consumed' = Iteration.tokens_consumed
    /\ pc' = Iteration.pc
    /\ ret' = Iteration.ret
    /\ how' = Iteration.how
    /\ UNCHANGED <<stack_limit, tokens, token_limit, eof, overflow_checks, entry>>

Next ==
    \/ \E toks \in Batches(MaxTokens - Len(tokens)) : execute_tokens(toks)
    \/ \E token \in Token : Len(tokens) < MaxTokens /\ execute_token(token)
    \/ execute
    \/ exit
    \/ \E b \in BOOLEAN : set_eof(b)
    \/ Step

\* An engine made by Slug::new(), fed incrementally.
Init == new({}, {})

Spec == Init /\ [][Next]_vars

\* An engine whose limits were given at construction, fed incrementally.
InitLimits == \E sl \in Limits, tl \in Limits : new(sl, tl)

NextLimits ==
    \/ \E toks \in Batches(MaxLimitTokens - Len(tokens)) : execute_tokens(toks)
    \/ \E token \in Token : Len(tokens) < MaxLimitTokens /\ execute_token(token)
    \/ execute
    \/ exit
    \/ \E b \in BOOLEAN : set_eof(b)
    \/ Step

SpecLimits == InitLimits /\ [][NextLimits]_vars

(***************************************************************************)
(* An engine built with a token limit, fed incrementally, whose loop runs  *)
(* on once a call has been made: execute is a sequential loop that         *)
(* nothing suspends, so a step that can be taken is taken.                 *)
(***************************************************************************)
InitBounded == \E sl \in Limits, tl \in Limits : tl # {} /\ new(sl, tl)

\* The tokens of the programs that go round: literals, the two jumps, and dump.
LoopToken ==
    {Value(-2), Value(0), Value(1), OppTok("hop"), OppTok("goto"), OppTok("dump")}

LoopBatches(n) == UNION {[1..k -> LoopToken] : k \in 0..n}

NextBounded ==
    \/ \E toks \in LoopBatches(MaxLimitTokens - Len(tokens)) : execute_tokens(toks)
    \/ \E token \in LoopToken : Len(tokens) < MaxLimitTokens /\ execute_token(token)
    \/ execute
    \/ exit
    \/ \E b \in BOOLEAN : set_eof(b)
    \/ Step

SpecBounded == InitBounded /\ [][NextBounded]_vars /\ WF_vars(Step)

(***************************************************************************)
(* An engine made by Slug::new() and fed a token sequence in consecutive   *)
(* batches, none of them empty, through execute_tokens with eof false, the *)
(* next batch being fed while the last call returned Ok(None).             *)
(***************************************************************************)
NextSplit ==
    \/ /\ ret \in {NoReturn, OkNone}
       /\ \E toks \in Batches(MaxTokens - Len(tokens)) :
              Len(toks) > 0 /\ execute_tokens(toks)
    \/ Step

SpecSplit == Init /\ [][NextSplit]_vars

(***************************************************************************)
(* One call of execute as a function: what the loop leaves when it is      *)
(* entered with the tokens toks, the stack st, the pointer p and the count *)
(* c, eof false and no limit set.  The iterations are those of Iteration,  *)
(* and like Step the function goes no further than MaxConsumed steps.      *)
(***************************************************************************)
RECURSIVE execute_loop(_, _, _, _)
execute_loop(toks, st, p, c) ==
    IF c >= MaxConsumed THEN Left(st, p, c, "loop", NoReturn, "continue")
    ELSE IF p < 0
        THEN Left(st, p, c, "idle", Err("BreforeProgramRead"), "before_read")
    ELSE IF p >= Len(toks)
        THEN Left(st, p, c, "panicked", Panic, "fetch_oob")
    ELSE LET a == Dispatch(toks[p + 1], st, p) IN
         CASE a.out = "next" ->
                IF Overflows(a.ptr + 1) /\ overflow_checks
                    THEN Left(a.stack, a.ptr, c, "panicked", Panic, "overflow")
                ELSE LET p1 == Wrap(a.ptr + 1) IN
                     IF p1 >= Len(toks)
                         THEN Left(a.stack, p1, c + 1, "idle", OkNone, "end_none")
                         ELSE execute_loop(toks, a.stack, p1, c + 1)
           [] a.out = "UnderRead" ->
                Left(a.stack, a.ptr, c, "idle", ErrAt("UnderRead", p), "under_read")
           [] a.out = "exit" ->
                Left(ExitOf(a.stack).stack, a.ptr, c, "idle", ExitOf(a.stack).ret,
                     "exit_opp")
           [] OTHER ->
                Left(a.stack, a.ptr, c, "panicked", Panic, a.out)

(***************************************************************************)
(* The run subcommand of main.rs: the engine is built with the whole       *)
(* program, eof = true and the token limit of the command line, and        *)
(* execute is called once.  The programs are straight-line: literals and   *)
(* dump, which neither jump nor pop.                                       *)
(***************************************************************************)
StraightToken == {Value(1), OppTok("dump")}

InitRun == \E tl \in {{n} : n \in 0..StraightLimit} : new({}, tl)

run(program) ==
    /\ entry.op = "new"
    /\ Len(tokens) = 0
    /\ eof' = TRUE
    /\ entry' = [Snapshot("execute") EXCEPT !.eof = TRUE, !.len = Len(program)]
    /\ tokens' = program
    /\ IF Len(program) = 0
           THEN pc' = "idle" /\ ret' = Err("NoTokens") /\ how' = "no_tokens"
           ELSE pc' = "loop" /\ ret' = NoReturn /\ how' = "enter"
    /\ UNCHANGED <<stack, stack_limit, ptr, token_limit, tokens_consumed, overflow_checks>>

NextRun ==
    \/ \E k \in 0..StraightLen : \E program \in [1..k -> StraightToken] : run(program)
    \/ Step

SpecRun == InitRun /\ [][NextRun]_vars

(***************************************************************************)
(* An engine made by Slug::new() and fed the programs of the jumps and of  *)
(* the division: the literals are the two ends of the integer range and    *)
(* small operands of both signs.                                           *)
(***************************************************************************)
EdgeValues == {MinInt, -2, -1, 2, MaxInt}

EdgeToken ==
    {Value(i) : i \in EdgeValues} \cup {OppTok("hop"), OppTok("goto"), OppTok("div")}

EdgeBatches(n) == UNION {[1..k -> EdgeToken] : k \in 0..n}

NextEdge ==
    \/ \E toks \in EdgeBatches(MaxTokens - Len(tokens)) : execute_tokens(toks)
    \/ \E token \in EdgeToken : Len(tokens) < MaxTokens /\ execute_token(token)
    \/ execute
    \/ exit
    \/ \E b \in BOOLEAN : set_eof(b)
    \/ Step

SpecEdge == Init /\ [][NextEdge]_vars

(***************************************************************************)
(* The tokenizer.  A text is a sequence of characters; the alphabet has    *)
(* two of the ASCII whitespace characters, a digit, the two signs and the  *)
(* letters of one mnemonic.                                                *)
(***************************************************************************)
MaxText == 5

Whitespace == {" ", "\n"}
Digit == {"1"}
Char == Whitespace \cup Digit \cup {"-", "+", "a", "d"}

Texts == UNION {[1..k -> Char] : k \in 0..MaxText}

\* str::split_ascii_whitespace: the maximal runs of characters that are not
\* whitespace, in order; never an empty word.
RECURSIVE split_ascii_whitespace(_)
split_ascii_whitespace(text) ==
    IF Len(text) = 0 THEN <<>>
    ELSE IF Head(text) \in Whitespace THEN split_ascii_whitespace(Tail(text))
    ELSE LET k == CHOOSE k \in 1..Len(text) :
                      /\ \A j \in 1..k : text[j] \notin Whitespace
                      /\ k = Len(text) \/ text[k + 1] \in Whitespace
         IN  <<SubSeq(text, 1, k)>> \o split_ascii_whitespace(SubSeq(text, k + 1, Len(text)))

\* The value of a string of digits, most significant first.
RECURSIVE DecimalValue(_)
DecimalValue(digits) ==
    IF Len(digits) = 0 THEN 0
    ELSE 10 * DecimalValue(SubSeq(digits, 1, Len(digits) - 1))
         + (CASE digits[Len(digits)] = "1" -> 1)

\* s.parse::<i64>(): an optional sign, + or -, then one digit at least and
\* digits only; a value outside the range of the integer is an error.
i64_from_str(s) ==
    LET digits == IF s[1] \in {"+", "-"} THEN Tail(s) ELSE s
        num == IF s[1] = "-" THEN 0 - DecimalValue(digits) ELSE DecimalValue(digits)
    IN  IF /\ Len(digits) > 0
           /\ \A j \in 1..Len(digits) : digits[j] \in Digit
           /\ num >= MinInt
           /\ num <= MaxInt
            THEN [ok |-> TRUE, val |-> <<num>>]
            ELSE [ok |-> FALSE, val |-> <<>>]

\* Opp::from_str: the match on the mnemonics, letter by letter.
Opp_from_str(s) ==
    CASE s = <<"a", "d", "d">>      -> [ok |-> TRUE, val |-> <<"add">>]
      [] s = <<"s", "u", "b">>      -> [ok |-> TRUE, val |-> <<"sub">>]
      [] s = <<"m", "u", "l">>      -> [ok |-> TRUE, val |-> <<"mul">>]
      [] s = <<"d", "u", "m", "p">> -> [ok |-> TRUE, val |-> <<"dump">>]
      [] s = <<"t", "o", "p">>      -> [ok |-> TRUE, val |-> <<"top">>]
      [] s = <<"s", "w", "a", "p">> -> [ok |-> TRUE, val |-> <<"swap">>]
      [] s = <<"d", "r", "o", "p">> -> [ok |-> TRUE, val |-> <<"drop">>]
      [] s = <<"h", "o", "p">>      -> [ok |-> TRUE, val |-> <<"hop">>]
      [] s = <<"d", "i", "v">>      -> [ok |-> TRUE, val |-> <<"div">>]
      [] s = <<"p", "o", "s">>      -> [ok |-> TRUE, val |-> <<"pos">>]
      [] s = <<"e", "x", "i", "t">> -> [ok |-> TRUE, val |-> <<"exit">>]
      [] s = <<"g", "o", "t", "o">> -> [ok |-> TRUE, val |-> <<"goto">>]
      [] s = <<"f", "l", "i", "p">> -> [ok |-> TRUE, val |-> <<"flip">>]
      [] OTHER                      -> [ok |-> FALSE, val |-> <<>>]

\* Token::from_str: the integer first, the mnemonic second.
Token_from_str(s) ==
    IF i64_from_str(s).ok THEN [ok |-> TRUE, val |-> <<Value(i64_from_str(s).val[1])>>]
    ELSE IF Opp_from_str(s).ok THEN [ok |-> TRUE, val |-> <<OppTok(Opp_from_str(s).val[1])>>]
    ELSE [ok |-> FALSE, val |-> <<>>]

\* A slip: rfind for find.
parse_text_LastError(text) ==
    LET words == split_ascii_whitespace(text)
        parsed == [k \in 1..Len(words) |-> Token_from_str(words[k])]
    IN  IF \A k \in 1..Len(words) : parsed[k].ok
            THEN [tag |-> "Tokens", val |-> [k \in 1..Len(words) |-> parsed[k].val[1]]]
            ELSE LET k == CHOOSE k \in 1..Len(words) :
                              /\ ~parsed[k].ok
                              /\ \A j \in (k + 1)..Len(words) : parsed[j].ok
                 IN  [tag |-> "ParseTextError", val |-> <<k - 1>>]

\* Tokenizer::parse_text: every word is parsed; if all are tokens the tokens
\* are returned, else the find returns the first pair whose parse failed and
\* its idx (counted from 0 by enumerate) is the error.
parse_text(text) ==
    LET words == split_ascii_whitespace(text)
        parsed == [k \in 1..Len(words) |-> Token_from_str(words[k])]
    IN  IF \A k \in 1..Len(words) : parsed[k].ok
            THEN [tag |-> "Tokens", val |-> [k \in 1..Len(words) |-> parsed[k].val[1]]]
            ELSE LET k == CHOOSE k \in 1..Len(words) :
                              /\ ~parsed[k].ok
                              /\ \A j \in 1..(k - 1) : parsed[j].ok
                 IN  [tag |-> "ParseTextError", val |-> <<k - 1>>]

\* One call of Tokenizer::parse_text, before the engine is given anything:
\* entry keeps the text the call was given and ret what it returned.
Tokenizer_parse_text(text) ==
    /\ entry.op = "new"
    /\ entry' = [op |-> "parse_text", text |-> text]
    /\ ret' = parse_text(text)
    /\ how' = "parse_text"
    /\ UNCHANGED <<stack, stack_limit, tokens, ptr, token_limit, tokens_consumed,
                   eof, overflow_checks, pc>>

\* The texts are drawn only where the call can be made.
NextParse == entry.op = "new" /\ \E text \in Texts : Tokenizer_parse_text(text)

SpecParse == Init /\ [][NextParse]_vars

(***************************************************************************)
(* Vocabulary of the properties.                                           *)
(***************************************************************************)
\* The loop is about to fetch tokens[ptr]: the check ptr < 0 has passed.
AtFetch == pc = "loop" /\ ptr >= 0

\* What the dispatch of the token under the pointer leaves.
ThisArm == Dispatch(tokens[ptr + 1], stack, ptr)

\* The iteration that starts here reaches the pointer advance and completes it.
Completes ==
    /\ AtFetch
    /\ ptr < Len(tokens)
    /\ ThisArm.out = "next"
    /\ ~(Overflows(ThisArm.ptr + 1) /\ overflow_checks)

\* A call has returned or panicked.
Over == pc # "loop"

(***************************************************************************)
(* C1: every time the loop of execute fetches tokens[ptr], 0 <= ptr and    *)
(* ptr < len(tokens): the fetch is never out of bounds.                    *)
(* The code fetches out of bounds: a first execute on an empty engine with *)
(* eof false reaches the fetch with ptr = 0 = len(tokens).                 *)
(***************************************************************************)
C1_FetchInBounds == AtFetch => ptr < Len(tokens)

(***************************************************************************)
(* C2: after a call returned Ok(None) with ptr = len(tokens) and eof       *)
(* false, setting eof and calling execute() with no token appended         *)
(* returns the popped top of the stack, or NoOut if the stack is empty.    *)
(* The code panics instead: the call fetches tokens[len].                  *)
(***************************************************************************)
C2_EofAfterSuspensionCompletes ==
    ( /\ Over
      /\ entry.op = "execute"
      /\ entry.ret = OkNone
      /\ entry.ptr = entry.len
      /\ entry.eof
      /\ Len(tokens) = entry.len )
    => /\ pc = "idle"
       /\ IF Len(entry.stack) = 0
              THEN ret = Err("NoOut")
              ELSE ret = OkSome(entry.stack[Len(entry.stack)])

(***************************************************************************)
(* C3: at the termination check after a completed step, with len =         *)
(* len(tokens): ptr = len stops the loop normally; ptr > len with eof      *)
(* false stops it and execute returns Ok(None), whatever the overshoot;    *)
(* ptr > len with eof true fails with AfterProgramRead; ptr < len goes on  *)
(* with the next step.                                                     *)
(***************************************************************************)
C3_TerminationCheck ==
    [][ (Completes /\ ret'.tag \notin {"TokenLimitHit", "StackLimitHit"})
        => LET len == Len(tokens) IN
           /\ ptr' = len => (pc' = "idle" /\ ret'.tag \in {"OkNone", "OkSome", "NoOut"})
           /\ (ptr' > len /\ ~eof) => (pc' = "idle" /\ ret' = OkNone)
           /\ (ptr' > len /\ eof) => (pc' = "idle" /\ ret' = Err("AfterProgramRead"))
           /\ ptr' < len => (pc' = "loop" /\ ret' = NoReturn) ]_vars

\* A call suspended with the pointer more than one past the end.
C3_Witness ==
    /\ pc = "idle"
    /\ how = "end_none"
    /\ ret = OkNone
    /\ ptr > Len(tokens) + 1

(***************************************************************************)
(* C4: when the loop stops with ptr = len(tokens) while eof is false,      *)
(* execute returns Ok(None) and pops nothing: the stack is as the last     *)
(* step left it, and ptr and tokens_consumed keep their values until the   *)
(* next call runs.                                                         *)
(***************************************************************************)
C4_SuspendAtBoundaryKeepsState ==
    [][ /\ ( /\ Completes
             /\ ret'.tag \notin {"TokenLimitHit", "StackLimitHit"}
             /\ ptr' = Len(tokens)
             /\ ~eof )
           => (pc' = "idle" /\ ret' = OkNone /\ stack' = ThisArm.stack)
        /\ (pc = "idle" /\ ret = OkNone)
           => ( /\ ptr' = ptr
                /\ tokens_consumed' = tokens_consumed
                /\ (pc' = "loop" => stack' = stack) ) ]_vars

\* A call suspended at the boundary with a value left on the stack, and the
\* next call has been entered.
C4_Witness ==
    /\ pc = "loop"
    /\ how = "enter"
    /\ entry.ret = OkNone
    /\ entry.ptr = entry.len
    /\ Len(entry.stack) > 0
    /\ stack = entry.stack
    /\ tokens_consumed = entry.tokens_consumed

(***************************************************************************)
(* C5: the exit opcode and the natural end of the program (the loop        *)
(* stopped with ptr = len(tokens) while eof is true) both pop exactly one  *)
(* value and return it, leaving the rest of the stack unchanged; on an     *)
(* empty stack the outcome is the error NoOut.                             *)
(***************************************************************************)
C5_ExitPopsOne ==
    [][ /\ ( /\ AtFetch
             /\ ptr < Len(tokens)
             /\ tokens[ptr + 1] = OppTok("exit") )
           => /\ pc' = "idle"
              /\ IF Len(stack) = 0
                     THEN ret' = Err("NoOut") /\ stack' = stack
                     ELSE /\ ret' = OkSome(stack[Len(stack)])
                          /\ Len(stack') = Len(stack) - 1
                          /\ stack' = SubSeq(stack, 1, Len(stack) - 1)
        /\ ( /\ Completes
             /\ ret'.tag \notin {"TokenLimitHit", "StackLimitHit"}
             /\ ptr' = Len(tokens)
             /\ eof )
           => /\ pc' = "idle"
              /\ LET st == ThisArm.stack IN
                 IF Len(st) = 0
                     THEN ret' = Err("NoOut") /\ stack' = st
                     ELSE /\ ret' = OkSome(st[Len(st)])
                          /\ Len(stack') = Len(st) - 1
                          /\ stack' = SubSeq(st, 1, Len(st) - 1) ]_vars

\* The program ended naturally and returned its top, with more left beneath.
C5_Witness ==
    /\ pc = "idle"
    /\ how = "end_exit"
    /\ ret.tag = "OkSome"
    /\ Len(stack) >= 1
    /\ ptr = Len(tokens)
    /\ eof

(***************************************************************************)
(* C6: on a fresh engine with eof false, for every literal v, feeding [v]  *)
(* returns Ok(None), and then feeding [exit], eof still false, returns the *)
(* result v.                                                               *)
(***************************************************************************)
C6_ExitRegardlessOfEof ==
    \A v \in Values :
        /\ ( /\ Over
             /\ entry.op = "execute"
             /\ entry.ret = NoReturn
             /\ entry.len = 0
             /\ ~entry.eof
             /\ tokens = <<Value(v)>> )
           => (pc = "idle" /\ ret = OkNone)
        /\ ( /\ Over
             /\ entry.op = "execute"
             /\ entry.ret = OkNone
             /\ entry.len = 1
             /\ ~entry.eof
             /\ tokens = <<Value(v), OppTok("exit")>> )
           => (pc = "idle" /\ ret = OkSome(v))

\* [5] then [exit] with eof false throughout returned 5.
C6_Witness ==
    /\ pc = "idle"
    /\ entry.ret = OkNone
    /\ entry.len = 1
    /\ ~entry.eof
    /\ ~eof
    /\ tokens = <<Value(5), OppTok("exit")>>
    /\ ret = OkSome(5)

(***************************************************************************)
(* C7: execute with tokens empty and eof true fails at once with           *)
(* NoTokens: no step runs, and stack, ptr and tokens_consumed are          *)
(* unchanged.                                                              *)
(***************************************************************************)
\* Some call of execute, execute_tokens or execute_token: tokens grew by the
\* batch of the call, if any, and the head of execute ran.
AnyExecute ==
    /\ Live
    /\ entry' = Snapshot("execute")
    /\ Len(tokens') >= Len(tokens)
    /\ SubSeq(tokens', 1, Len(tokens)) = tokens
    /\ Enter(tokens')

C7_NoTokens ==
    [][ (AnyExecute /\ Len(tokens') = 0 /\ eof)
        => /\ pc' = "idle"
           /\ ret' = Err("NoTokens")
           /\ stack' = stack
           /\ ptr' = ptr
           /\ tokens_consumed' = tokens_consumed ]_vars

\* An empty engine with eof true was executed.
C7_Witness ==
    /\ pc = "idle"
    /\ entry.op = "execute"
    /\ entry.eof
    /\ Len(tokens) = 0
    /\ ret = Err("NoTokens")

(***************************************************************************)
(* C8: tokens_consumed never decreases and is never reset between calls;   *)
(* it increases by exactly one in each completed step (one that reached    *)
(* the pointer advance) and is changed by nothing else, so token_limit is  *)
(* compared against the total of the instance's lifetime.                  *)
(***************************************************************************)
C8_TokensConsumedCumulative ==
    [][ /\ tokens_consumed' >= tokens_consumed
        /\ Completes => tokens_consumed' = tokens_consumed + 1
        /\ ~Completes => tokens_consumed' = tokens_consumed
        /\ Completes =>
               (ret'.tag = "TokenLimitHit"
                    <=> \E limit \in token_limit : limit < tokens_consumed') ]_vars

\* The limit was hit in a later call whose own steps stayed within it.
C8_Witness ==
    /\ entry.op = "execute"
    /\ entry.tokens_consumed > 0
    /\ ret.tag = "TokenLimitHit"
    /\ \E limit \in token_limit : tokens_consumed - entry.tokens_consumed <= limit

(***************************************************************************)
(* C9: with token_limit = L, a straight-line program of more than L        *)
(* tokens run with eof true fails with TokenLimitHit when exactly L steps  *)
(* have been executed (token_limit = 3 on 10 tokens: after 3 steps).       *)
(* The code fails one step later: the check is limit < tokens_consumed.    *)
(***************************************************************************)
C9_LimitHitAfterLSteps ==
    \A L \in token_limit :
        (Over /\ entry.op = "execute" /\ Len(tokens) > L)
        => (ret.tag = "TokenLimitHit" /\ tokens_consumed = L)

(***************************************************************************)
(* C9 as amended: with token_limit = L, a straight-line program of more    *)
(* than L tokens run with eof true runs L steps without failing and fails  *)
(* with TokenLimitHit when exactly L + 1 steps have been executed.         *)
(***************************************************************************)
C9_LimitHitAfterLPlusOneSteps ==
    \A L \in token_limit :
        /\ pc = "loop" => tokens_consumed <= L
        /\ (Over /\ entry.op = "execute" /\ Len(tokens) > L)
           => /\ pc = "idle"
              /\ ret = ErrAt("TokenLimitHit", L + 1)
              /\ tokens_consumed = L + 1

\* token_limit = 3 on a 10-token program: failed after 4 steps.
C9_Witness ==
    /\ token_limit = {3}
    /\ Len(tokens) = 10
    /\ eof
    /\ ret.tag = "TokenLimitHit"
    /\ tokens_consumed = 4

(***************************************************************************)
(* C10: with token_limit set, execute fails with TokenLimitHit(ptr) after  *)
(* a completed step exactly when tokens_consumed is then greater than      *)
(* token_limit, ptr being the pointer after that step's advance (hop and   *)
(* goto included).  The check precedes the termination check: a final step *)
(* that brings tokens_consumed above the limit fails, and a run of exactly *)
(* token_limit steps completes.                                            *)
(***************************************************************************)
C10_TokenLimitHit ==
    [][ /\ Completes =>
               \A limit \in token_limit :
                   /\ ret'.tag = "TokenLimitHit" <=> tokens_consumed' > limit
                   /\ ret'.tag = "TokenLimitHit" =>
                          /\ pc' = "idle"
                          /\ ret'.val = <<ptr'>>
                          /\ ptr' = Wrap(ThisArm.ptr + 1)
                   /\ ( /\ tokens_consumed' <= limit
                        /\ ret'.tag # "StackLimitHit"
                        /\ ptr' = Len(tokens)
                        /\ eof )
                      => (pc' = "idle" /\ ret'.tag \in {"OkSome", "NoOut"})
        /\ (ret'.tag = "TokenLimitHit" /\ ret.tag # "TokenLimitHit")
           => (Completes /\ token_limit # {}) ]_vars

\* The step that would have completed the program exceeded the limit.
C10_Witness ==
    /\ pc = "idle"
    /\ ret.tag = "TokenLimitHit"
    /\ ret.val = <<ptr>>
    /\ ptr = Len(tokens)
    /\ eof
    /\ Len(stack) > 0

(***************************************************************************)
(* C11: with stack_limit set, the length of the stack is compared with it  *)
(* once after each completed step.  If the token limit is not exceeded and *)
(* the stack then holds more than stack_limit values, execute fails with   *)
(* StackLimitHit(ptr), ptr being the pointer after that step's advance;    *)
(* when both ceilings are exceeded after the same step, TokenLimitHit is   *)
(* the error.  No other step ends in StackLimitHit.                        *)
(***************************************************************************)
C11_StackLimitHit ==
    [][ /\ Completes =>
               LET overTokens == \E tl \in token_limit : tokens_consumed' > tl IN
               \A limit \in stack_limit :
                   /\ ret'.tag = "StackLimitHit"
                          <=> (~overTokens /\ Len(ThisArm.stack) > limit)
                   /\ ret'.tag = "StackLimitHit" =>
                          /\ pc' = "idle"
                          /\ ret'.val = <<ptr'>>
                          /\ ptr' = Wrap(ThisArm.ptr + 1)
                          /\ stack' = ThisArm.stack
                   /\ (overTokens /\ Len(ThisArm.stack) > limit)
                          => (pc' = "idle" /\ ret' = ErrAt("TokenLimitHit", ptr'))
        /\ (ret'.tag = "StackLimitHit" /\ ret.tag # "StackLimitHit")
           => (Completes /\ stack_limit # {}) ]_vars

\* Both ceilings were exceeded by the same step, and the token limit is the
\* one reported.
C11_Witness ==
    /\ pc = "idle"
    /\ ret = ErrAt("TokenLimitHit", ptr)
    /\ \E limit \in stack_limit : Len(stack) > limit
    /\ \E tl \in token_limit : tokens_consumed = tl + 1

(***************************************************************************)
(* C12: a popping opcode other than exit (add, sub, mul, div and swap pop  *)
(* two values; top, drop, hop, goto and flip pop one) executed at index p  *)
(* on a stack that holds fewer values than it pops fails with              *)
(* UnderRead(p), p being the index of that opcode itself, and the run is   *)
(* over: the pointer is not advanced and the step is not counted.          *)
(***************************************************************************)
PopsTwo == {"add", "sub", "mul", "div", "swap"}
PopsOne == {"top", "drop", "hop", "goto", "flip"}

C12_UnderRead ==
    [][ ( /\ AtFetch
          /\ ptr < Len(tokens)
          /\ tokens[ptr + 1].kind = "Opp"
          /\ \/ tokens[ptr + 1].opp \in PopsTwo /\ Len(stack) < 2
             \/ tokens[ptr + 1].opp \in PopsOne /\ Len(stack) < 1 )
        => /\ pc' = "idle"
           /\ ret' = ErrAt("UnderRead", ptr)
           /\ ptr' = ptr
           /\ tokens_consumed' = tokens_consumed ]_vars

\* A two-value opcode, not the first token, found a single value.
C12_Witness ==
    /\ pc = "idle"
    /\ how = "under_read"
    /\ ret = ErrAt("UnderRead", ptr)
    /\ ptr >= 1
    /\ tokens[ptr + 1].opp \in PopsTwo
    /\ tokens_consumed = 1

(***************************************************************************)
(* C13: whenever a step begins with ptr < 0, execute fails with            *)
(* BreforeProgramRead (the source's spelling) and fetches nothing: the     *)
(* stack, the pointer and the count of steps stay as they were, so the     *)
(* pointer is never clamped to 0.                                          *)
(***************************************************************************)
C13_BeforeProgramRead ==
    [][ (pc = "loop" /\ ptr < 0)
        => /\ pc' = "idle"
           /\ ret' = Err("BreforeProgramRead")
           /\ ptr' = ptr
           /\ stack' = stack
           /\ tokens_consumed' = tokens_consumed
           /\ tokens' = tokens ]_vars

\* A jump went before the program and the next step refused it.
C13_Witness ==
    /\ pc = "idle"
    /\ how = "before_read"
    /\ ret = Err("BreforeProgramRead")
    /\ ptr < 0
    /\ tokens_consumed > 0

(***************************************************************************)
(* C14: div executed with a zero divisor on a stack of at least two values *)
(* ends the call with an error value of its own kind, which the caller can *)
(* catch; it is never a crash.                                             *)
(***************************************************************************)
C14_DivByZeroIsAnError ==
    [][ ( /\ AtFetch
          /\ ptr < Len(tokens)
          /\ tokens[ptr + 1] = OppTok("div")
          /\ Len(stack) >= 2
          /\ Top(stack) = 0 )
        => /\ pc' = "idle"
           /\ ret'.tag \notin {"None", "OkNone", "OkSome", "Panic", "UnderRead"} ]_vars

(***************************************************************************)
(* C15: flip on a stack of n >= 1 values (n = 1 included) exchanges the    *)
(* bottom value and the top value and leaves the values between them and   *)
(* the length unchanged.                                                   *)
(***************************************************************************)
Flipped(st) ==
    [k \in 1..Len(st) |-> IF k = 1 THEN st[Len(st)]
                          ELSE IF k = Len(st) THEN st[1]
                          ELSE st[k]]

C15_FlipExchangesEnds ==
    ( /\ AtFetch
      /\ ptr < Len(tokens)
      /\ tokens[ptr + 1] = OppTok("flip")
      /\ Len(stack) >= 1 )
    => /\ ThisArm.out = "next"
       /\ ThisArm.stack = Flipped(stack)

(***************************************************************************)
(* C16, as stated: hop executed at index p with d on top of the stack pops *)
(* d and leaves ptr = p + d + 1 after the step, for every d; if that index *)
(* is inside the program, the token there is the next one executed.        *)
(***************************************************************************)
HopHere ==
    /\ AtFetch
    /\ ptr < Len(tokens)
    /\ tokens[ptr + 1] = OppTok("hop")
    /\ Len(stack) >= 1

HopLands ==
    LET target == ptr + Top(stack) + 1 IN
    /\ ThisArm.stack = Pop(stack)
    /\ ptr' = target
    /\ tokens_consumed' = tokens_consumed + 1
    /\ (0 <= target /\ target < Len(tokens))
           => (pc' = "loop" /\ stack' = Pop(stack))

C16_HopLandsForEveryD == [][ HopHere => HopLands ]_vars

(***************************************************************************)
(* C16, amended: the same for every d such that p + d + 1 is inside the    *)
(* range of the integers of the engine.                                    *)
(***************************************************************************)
C16_HopLandsInRange ==
    [][ (HopHere /\ ~Overflows(ptr + Top(stack) + 1)) => HopLands ]_vars

\* A hop back from index 2 to index 1: the step is done and the loop goes on
\* from the literal -2.
C16_Witness ==
    /\ tokens = <<Value(2), Value(-2), OppTok("hop")>>
    /\ tokens_consumed = 3
    /\ pc = "loop"
    /\ how = "continue"
    /\ ptr = 1
    /\ stack = <<2>>

(***************************************************************************)
(* C17, as stated: goto executed with v on top of the stack pops v and     *)
(* leaves ptr = v after the step, wherever the goto is; if                 *)
(* 0 <= v < len(tokens), the token at index v is the next one executed.    *)
(***************************************************************************)
GotoHere ==
    /\ AtFetch
    /\ ptr < Len(tokens)
    /\ tokens[ptr + 1] = OppTok("goto")
    /\ Len(stack) >= 1

GotoLands ==
    LET v == Top(stack) IN
    /\ ThisArm.stack = Pop(stack)
    /\ ptr' = v
    /\ tokens_consumed' = tokens_consumed + 1
    /\ (0 <= v /\ v < Len(tokens))
           => (pc' = "loop" /\ stack' = Pop(stack))

C17_GotoLandsForEveryV == [][ GotoHere => GotoLands ]_vars

(***************************************************************************)
(* C17, amended: the same for every v, but for the least integer in a      *)
(* build that checks overflow, where v - 1 is outside the range of the     *)
(* integers of the engine and the subtraction panics.                      *)
(***************************************************************************)
C17_GotoLandsInRange ==
    [][ (GotoHere /\ ~(Overflows(Top(stack) - 1) /\ overflow_checks))
        => GotoLands ]_vars

\* A goto at index 1 to index 2: the step is done and the loop goes on from
\* there.
C17_Witness ==
    /\ Len(tokens) = 3
    /\ tokens[1] = Value(2)
    /\ tokens[2] = OppTok("goto")
    /\ tokens_consumed = 2
    /\ pc = "loop"
    /\ how = "continue"
    /\ ptr = 2
    /\ stack = <<>>

(***************************************************************************)
(* C18, as stated: div on a stack [..., lhs, rhs] with rhs # 0 replaces    *)
(* the two values by the remainder and then the quotient, the quotient on  *)
(* top, with truncation toward zero: lhs = quot * rhs + rem, and rem is    *)
(* zero or has the sign of lhs (and is smaller than rhs in magnitude).     *)
(***************************************************************************)
DivHere ==
    /\ AtFetch
    /\ ptr < Len(tokens)
    /\ tokens[ptr + 1] = OppTok("div")
    /\ Len(stack) >= 2
    /\ Top(stack) # 0

DivLeaves ==
    LET n == Len(stack)
        rhs == stack[n]
        lhs == stack[n - 1]
        st == ThisArm.stack
    IN  /\ ThisArm.out = "next"
        /\ Len(st) = n
        /\ SubSeq(st, 1, n - 2) = SubSeq(stack, 1, n - 2)
        /\ LET rem == st[n - 1]
               quot == st[n]
           IN  /\ lhs = quot * rhs + rem
               /\ rem * rem < rhs * rhs
               /\ rem = 0 \/ (rem > 0 <=> lhs > 0)

C18_DivForEveryDivisor == DivHere => DivLeaves

(***************************************************************************)
(* C18, amended: the same but for the least integer divided by -1, whose   *)
(* quotient is outside the range of the integers of the engine.            *)
(***************************************************************************)
C18_DivInRange ==
    (DivHere /\ ~(stack[Len(stack) - 1] = MinInt /\ Top(stack) = -1)) => DivLeaves

\* 7 divided by 2: the remainder 1 and the quotient 3 on top.
C18_Witness ==
    /\ tokens = <<Value(7), Value(2), OppTok("div")>>
    /\ tokens_consumed = 3
    /\ how = "end_none"
    /\ stack = <<1, 3>>

(***************************************************************************)
(* C19: tokens is append-only.  Every step of the engine leaves the        *)
(* earlier contents of tokens as a prefix of the later ones;               *)
(* execute_tokens(batch) appends exactly batch, in order; execute_token(t) *)
(* appends exactly t; execute, exit and the steps of the loop leave tokens *)
(* as they are, so that only a call that brings tokens changes the         *)
(* sequence.                                                               *)
(***************************************************************************)
C19_TokensAppendOnly ==
    [][ /\ Len(tokens') >= Len(tokens)
        /\ SubSeq(tokens', 1, Len(tokens)) = tokens
        /\ Live =>
               /\ \A toks \in EdgeBatches(MaxTokens - Len(tokens)) :
                      execute_tokens(toks) => tokens' = tokens \o toks
               /\ \A token \in EdgeToken :
                      execute_token(token) => tokens' = tokens \o <<token>>
        /\ (execute \/ exit \/ Step) => tokens' = tokens
        /\ tokens' # tokens => (pc = "idle" /\ entry' = Snapshot("execute")) ]_vars

\* A batch of two tokens was appended to an engine that held one already.
C19_Witness ==
    /\ pc = "loop"
    /\ how = "enter"
    /\ entry.op = "execute"
    /\ entry.len >= 1
    /\ Len(tokens) >= entry.len + 2
    /\ ptr = entry.len

(***************************************************************************)
(* C20: Tokenizer::parse_text on a text of which one word at least is      *)
(* neither an integer nor a mnemonic fails with ParseTextError, and idx is *)
(* the least index, counted from 0, of the failing words; on a text with   *)
(* no failing word, the empty text and the text of whitespace only         *)
(* included, it returns one token for each word, in the order of the       *)
(* words.                                                                  *)
(***************************************************************************)
FailingWords(text) ==
    LET words == split_ascii_whitespace(text) IN
    {k \in 1..Len(words) : ~Token_from_str(words[k]).ok}

C20_ParseTextFirstFailingWord ==
    entry.op = "parse_text" =>
        LET words == split_ascii_whitespace(entry.text)
            failing == FailingWords(entry.text)
        IN  /\ failing # {} =>
                   /\ ret.tag = "ParseTextError"
                   /\ ret.val[1] + 1 \in failing
                   /\ \A k \in failing : ret.val[1] + 1 <= k
            /\ failing = {} =>
                   /\ ret.tag = "Tokens"
                   /\ Len(ret.val) = Len(words)
                   /\ \A k \in 1..Len(words) :
                          ret.val[k] = Token_from_str(words[k]).val[1]
            /\ (\A j \in 1..Len(entry.text) : entry.text[j] \in Whitespace)
                   => ret = [tag |-> "Tokens", val |-> <<>>]

\* Two failing words after a word that is a token: the error names the first
\* of the two.
C20_Witness ==
    /\ entry.op = "parse_text"
    /\ ret = [tag |-> "ParseTextError", val |-> <<1>>]
    /\ Cardinality(FailingWords(entry.text)) >= 2

(***************************************************************************)
(* C21: an opcode never executes in part.  Whenever a step of execute      *)
(* fails with UnderRead, the stack, ptr and tokens_consumed are as they    *)
(* were when the step began.                                               *)
(***************************************************************************)
C21_UnderReadLeavesState ==
    [][ (pc = "loop" /\ ret'.tag = "UnderRead")
        => /\ stack' = stack
           /\ ptr' = ptr
           /\ tokens_consumed' = tokens_consumed ]_vars

(***************************************************************************)
(* C22: a step that executes the exit opcode returns at once and bypasses  *)
(* the rest of the step: ptr still indexes the exit token, tokens_consumed *)
(* is not incremented, and neither limit is checked for that step; the     *)
(* pop of the returned value is the only change of the engine.             *)
(***************************************************************************)
C22_ExitBypassesTheStep ==
    [][ ( /\ AtFetch
          /\ ptr < Len(tokens)
          /\ tokens[ptr + 1] = OppTok("exit") )
        => /\ pc' = "idle"
           /\ ret'.tag \notin {"TokenLimitHit", "StackLimitHit"}
           /\ ret' = (IF Len(stack) = 0 THEN Err("NoOut") ELSE OkSome(Top(stack)))
           /\ stack' = (IF Len(stack) = 0 THEN stack ELSE Pop(stack))
           /\ ptr' = ptr
           /\ tokens_consumed' = tokens_consumed
           /\ UNCHANGED <<tokens, eof, stack_limit, token_limit>> ]_vars

\* An exit executed as the step that would have gone over the token limit.
C22_Witness ==
    /\ pc = "idle"
    /\ how = "exit_opp"
    /\ ret.tag = "OkSome"
    /\ tokens[ptr + 1] = OppTok("exit")
    /\ token_limit = {tokens_consumed}
    /\ tokens_consumed > 0

(***************************************************************************)
(* C23: whenever eof is true at the call, execute never returns Ok(None):  *)
(* a call made with eof true that returns yields Ok(Some(v)) or an error.  *)
(* The one-shot driver, which builds the engine with eof true, relies on   *)
(* it.  eof does not change while a call is in progress, so eof at the     *)
(* return is eof at the call.                                              *)
(***************************************************************************)
C23_EofNeverSuspends ==
    [][ /\ eof' = eof \/ pc = "idle"
        /\ (eof /\ pc' = "idle" /\ (pc = "loop" \/ AnyExecute))
           => ret'.tag \in {"OkSome"} \cup RuntimeError ]_vars

\* A call made with eof true ran to the end of the tokens and returned the
\* top of the stack.
C23_Witness ==
    /\ pc = "idle"
    /\ entry.op = "execute"
    /\ entry.eof
    /\ how = "end_exit"
    /\ ret.tag = "OkSome"
    /\ tokens_consumed = Len(tokens)

C26_SplitEqualsWhole ==
    (pc # "loop" /\ Len(tokens) > 0)
    => LET whole == execute_loop(tokens, <<>>, 0, 0) IN
       /\ pc = whole.pc
       /\ ret = whole.ret
       /\ stack = whole.stack
       /\ ptr = whole.ptr
       /\ tokens_consumed = whole.tokens_consumed

====
